---- MODULE Spec2Model ----
(***************************************************************************)
(* Model of wWinMain (windows/runner/main.cpp): the native entry routine   *)
(* of the chart-viewer host.  The routine is a straight line of platform   *)
(* calls with one early return and one loop; each call is one action and   *)
(* pc is the position of the routine.  Strings are sequences of one-       *)
(* character strings so that find/substr/== are computed, not assumed.     *)
(***************************************************************************)
EXTENDS Integers, Sequences, FiniteSets, TLC

VARIABLES
  pc,           \* position in wWinMain
  env,          \* the process environment's APP_CONFIG: [present, value]
  origin,       \* Win32Window::Point origin (<<>> before construction)
  size,         \* Win32Window::Size size   (<<>> before construction)
  configEnv,    \* wchar_t* configEnv: [ptr: "null"|"live"|"freed", data]
  windowTitle,  \* std::wstring windowTitle
  createArgs,   \* arguments of the window.Create calls, in order
  msg,          \* ::MSG msg; 0 = not written yet, n = the n-th message
  exitStatus,   \* value returned by wWinMain (-1 while still running)
  useAfterFree, \* TRUE once the configEnv buffer is read after free()
  log           \* the platform calls made so far: [op, ret]

vars == <<pc, env, origin, size, configEnv, windowTitle, createArgs, msg,
          exitStatus, useAfterFree, log>>

\* ---------------------------------------------------------------- bounds
MaxSuffixLen == 3
MaxMessages == 2

\* ------------------------------------------------------------- constants
EXIT_SUCCESS == 0
EXIT_FAILURE == 1
npos == -1      \* std::wstring::npos, size_t(-1)

\* ------------------------------------------------------ string literals
DefaultTitle ==
  <<"E", "U", "R", "/", "U", "S", "D", " ", "C", "h", "a", "r", "t", " ", "V", "i", "e", "w", "e", "r">>
EURUSD_m5 ==
  <<"E", "U", "R", "U", "S", "D", "-", "m", "5">>
EURUSD_m30 ==
  <<"E", "U", "R", "U", "S", "D", "-", "m", "3", "0">>
EURUSD_h4 ==
  <<"E", "U", "R", "U", "S", "D", "-", "h", "4">>
Title_5m ==
  <<"E", "U", "R", "/", "U", "S", "D", "-", "5", "m">>
Title_30m ==
  <<"E", "U", "R", "/", "U", "S", "D", "-", "3", "0", "m">>
Title_4h ==
  <<"E", "U", "R", "/", "U", "S", "D", "-", "4", "h">>

\* ------------------------------------------- the inputs that are explored
\* Text placed before the suffix: the three known keys, near misses of them
\* (a character short, a character long, other case, leading blank), an
\* unrelated key, a one-letter key and the empty text.
Prefixes ==
  { EURUSD_m5, EURUSD_m30, EURUSD_h4,
    <<"E", "U", "R", "U", "S", "D", "-", "m">>,
    <<"E", "U", "R", "U", "S", "D", "-", "m", "5", "0">>,
    <<"e", "u", "r", "u", "s", "d", "-", "m", "5">>,
    <<" ", "E", "U", "R", "U", "S", "D", "-", "h", "4">>,
    <<"F", "O", "O">>, <<"A">>, <<>> }

SuffixChars == {",", "b"}

Suffixes ==
  UNION { [1..n -> SuffixChars] : n \in 0..MaxSuffixLen }

ConfigValues ==
  { p \o s : p \in Prefixes, s \in Suffixes }

Absent == [present |-> FALSE, value |-> <<>>]

Environments ==
  {Absent} \cup { [present |-> TRUE, value |-> v] : v \in ConfigValues }

\* ------------------------------------------------------- pure operations
Min(a, b) == IF a < b THEN a ELSE b

RECURSIVE FindFrom(_, _, _)
FindFrom(s, c, i) ==
  IF i >= Len(s) THEN npos
  ELSE IF s[i + 1] = c THEN i
  ELSE FindFrom(s, c, i + 1)

RECURSIVE RFindFrom(_, _, _)
RFindFrom(s, c, i) ==
  IF i < 0 THEN npos
  ELSE IF s[i + 1] = c THEN i
  ELSE RFindFrom(s, c, i - 1)

\* a find that scans from the back (rfind)
FindLast(s, c) == RFindFrom(s, c, Len(s) - 1)

\* std::wstring::find(wchar_t): 0-based index of the first c, or npos
Find(s, c) == FindFrom(s, c, 0)

\* std::wstring::substr(pos, n), for pos <= size()
Substr(s, pos, n) == SubSeq(s, pos + 1, Min(pos + n, Len(s)))

\* a lookup that drops the verbatim branch: unknown keys keep the old title
LookupTitleNoVerbatim(titleKey, title) ==
  IF titleKey = EURUSD_m5 THEN Title_5m
  ELSE IF titleKey = EURUSD_m30 THEN Title_30m
  ELSE IF titleKey = EURUSD_h4 THEN Title_4h
  ELSE title

\* the if / else-if chain over titleKey
LookupTitle(titleKey, title) ==
  IF titleKey = EURUSD_m5 THEN Title_5m
  ELSE IF titleKey = EURUSD_m30 THEN Title_30m
  ELSE IF titleKey = EURUSD_h4 THEN Title_4h
  ELSE titleKey

\* a resolution that forgets the npos test: without a comma the whole
\* string is taken as the key
ResolveTitleNoNposTest(configStr, title) ==
  LET separatorPos == Find(configStr, ",")
      titleKey     == IF separatorPos # npos
                        THEN Substr(configStr, 0, separatorPos)
                        ELSE configStr
  IN  LookupTitle(titleKey, title)

\* the body of the if on _wdupenv_s, up to free(): the new windowTitle
ResolveTitle(configStr, title) ==
  LET separatorPos == Find(configStr, ",")
  IN  IF separatorPos # npos
        THEN LookupTitle(Substr(configStr, 0, separatorPos), title)
        ELSE title

\* ----------------------------------------------------------------- state
Call(op, ret) == [op |-> op, ret |-> ret]

Logged(op) == { i \in 1..Len(log) : log[i].op = op }

Count(op) == Cardinality(Logged(op))

Init ==
  /\ pc = "attach_console"
  /\ env \in Environments
  /\ origin = <<>>
  /\ size = <<>>
  /\ configEnv = [ptr |-> "null", data |-> <<>>]
  /\ windowTitle = <<>>
  /\ createArgs = <<>>
  /\ msg = 0
  /\ exitStatus = -1
  /\ useAfterFree = FALSE
  /\ log = <<>>

\* ------------------------------------------------------------ the routine
\* if (!::AttachConsole(ATTACH_PARENT_PROCESS) && ::IsDebuggerPresent())
\*   CreateAndAttachConsole();
\* && short-circuits: IsDebuggerPresent is asked only when attaching failed.
\* CreateAndAttachConsole returns void; consoleOK is whether it got a console.
AttachConsoleStep ==
  /\ pc = "attach_console"
  /\ \E attached \in {0, 1}, debugger \in {0, 1}, consoleOK \in {0, 1} :
       log' = log \o <<Call("AttachConsole", attached)>>
                  \o (IF attached = 0
                        THEN <<Call("IsDebuggerPresent", debugger)>>
                               \o (IF debugger # 0
                                     THEN <<Call("CreateAndAttachConsole", consoleOK)>>
                                     ELSE <<>>)
                        ELSE <<>>)
  /\ pc' = "co_initialize"
  /\ UNCHANGED <<env, origin, size, configEnv, windowTitle, createArgs, msg,
                 exitStatus, useAfterFree>>

\* a CoInitializeEx whose HRESULT is checked and is fatal when negative
CoInitializeChecked ==
  /\ pc = "co_initialize"
  /\ \E hr \in {0, -1} :
       /\ log' = Append(log, Call("CoInitializeEx", hr))
       /\ IF hr < 0
            THEN pc' = "done" /\ exitStatus' = EXIT_FAILURE
            ELSE pc' = "construct" /\ UNCHANGED exitStatus
  /\ UNCHANGED <<env, origin, size, configEnv, windowTitle, createArgs, msg,
                 useAfterFree>>

\* ::CoInitializeEx(nullptr, COINIT_APARTMENTTHREADED); the HRESULT (0 = S_OK,
\* negative = failure) is discarded.
CoInitialize ==
  /\ pc = "co_initialize"
  /\ \E hr \in {0, -1} :
       log' = Append(log, Call("CoInitializeEx", hr))
  /\ pc' = "construct"
  /\ UNCHANGED <<env, origin, size, configEnv, windowTitle, createArgs, msg,
                 exitStatus, useAfterFree>>

Origin == <<10, 10>>

\* width and height exchanged
SizeSwapped == <<720, 1280>>

Size == <<1280, 720>>

\* DartProject project(L"data"); ...; FlutterWindow window(project);
\* Win32Window::Point origin(10, 10); Win32Window::Size size(1280, 720);
Construct ==
  /\ pc = "construct"
  /\ origin' = Origin
  /\ size' = Size
  /\ pc' = "dupenv"
  /\ UNCHANGED <<env, configEnv, windowTitle, createArgs, msg, exitStatus,
                 useAfterFree, log>>

\* std::wstring windowTitle = L"EUR/USD Chart Viewer"; configEnv = nullptr;
\* if (_wdupenv_s(&configEnv, &len, L"APP_CONFIG") == 0 && configEnv != nullptr)
\* _wdupenv_s: variable not found -> returns 0, buffer NULL; found -> returns
\* 0 and a fresh copy of the value; the copy cannot be allocated -> returns
\* ENOMEM (12), buffer NULL.
DupEnv ==
  /\ pc = "dupenv"
  /\ windowTitle' = DefaultTitle
  /\ \E err \in {0, 12} :
       /\ err # 0 => env.present
       /\ configEnv' = IF err = 0 /\ env.present
                         THEN [ptr |-> "live", data |-> env.value]
                         ELSE [ptr |-> "null", data |-> <<>>]
       /\ log' = Append(log, Call("_wdupenv_s", err))
       /\ pc' = IF err = 0 /\ configEnv'.ptr # "null" THEN "parse" ELSE "create"
  /\ UNCHANGED <<env, origin, size, createArgs, msg, exitStatus, useAfterFree>>

\* a parse that leaves the if early when there is no comma, past free()
ParseConfigEarlyOut ==
  /\ pc = "parse"
  /\ useAfterFree' = (useAfterFree \/ configEnv.ptr # "live")
  /\ windowTitle' = ResolveTitle(configEnv.data, windowTitle)
  /\ pc' = IF Find(configEnv.data, ",") = npos THEN "create" ELSE "free"
  /\ UNCHANGED <<env, origin, size, configEnv, createArgs, msg, exitStatus, log>>

\* std::wstring configStr(configEnv); ... windowTitle = ...;
\* configStr is a copy made by reading the buffer; titleKey and windowTitle
\* are copies in turn.
ParseConfig ==
  /\ pc = "parse"
  /\ useAfterFree' = (useAfterFree \/ configEnv.ptr # "live")
  /\ windowTitle' = ResolveTitle(configEnv.data, windowTitle)
  /\ pc' = "free"
  /\ UNCHANGED <<env, origin, size, configEnv, createArgs, msg, exitStatus, log>>

\* free(configEnv);
FreeConfig ==
  /\ pc = "free"
  /\ configEnv' = [configEnv EXCEPT !.ptr = "freed"]
  /\ log' = Append(log, Call("free", 0))
  /\ pc' = "create"
  /\ UNCHANGED <<env, origin, size, windowTitle, createArgs, msg, exitStatus,
                 useAfterFree>>

\* a Create whose result is not tested
CreateWindowUnchecked ==
  /\ pc = "create"
  /\ createArgs' = Append(createArgs,
                     [title |-> windowTitle, origin |-> origin, size |-> size])
  /\ \E ok \in {0, 1} :
       log' = Append(log, Call("Create", ok))
  /\ pc' = "set_quit_on_close"
  /\ UNCHANGED <<env, origin, size, configEnv, windowTitle, msg, exitStatus,
                 useAfterFree>>

\* a Create followed directly by the message loop
CreateWindowNoQuitOnClose ==
  /\ pc = "create"
  /\ createArgs' = Append(createArgs,
                     [title |-> windowTitle, origin |-> origin, size |-> size])
  /\ \E ok \in {0, 1} :
       /\ log' = Append(log, Call("Create", ok))
       /\ IF ok = 0
            THEN pc' = "done" /\ exitStatus' = EXIT_FAILURE
            ELSE pc' = "get_message" /\ UNCHANGED exitStatus
  /\ UNCHANGED <<env, origin, size, configEnv, windowTitle, msg, useAfterFree>>

\* if (!window.Create(windowTitle.c_str(), origin, size)) return EXIT_FAILURE;
CreateWindow ==
  /\ pc = "create"
  /\ createArgs' = Append(createArgs,
                     [title |-> windowTitle, origin |-> origin, size |-> size])
  /\ \E ok \in {0, 1} :
       /\ log' = Append(log, Call("Create", ok))
       /\ IF ok = 0
            THEN pc' = "done" /\ exitStatus' = EXIT_FAILURE
            ELSE pc' = "set_quit_on_close" /\ UNCHANGED exitStatus
  /\ UNCHANGED <<env, origin, size, configEnv, windowTitle, msg, useAfterFree>>

\* window.SetQuitOnClose(true);
SetQuitOnClose ==
  /\ pc = "set_quit_on_close"
  /\ log' = Append(log, Call("SetQuitOnClose", 1))
  /\ pc' = "get_message"
  /\ UNCHANGED <<env, origin, size, configEnv, windowTitle, createArgs, msg,
                 exitStatus, useAfterFree>>

\* loop iterations so far: GetMessage calls that returned nonzero
Iterations ==
  Cardinality({ i \in Logged("GetMessage") : log[i].ret # 0 })

\* messages written into msg so far
Retrieved ==
  Cardinality({ i \in Logged("GetMessage") : log[i].ret >= 0 })

\* a loop condition GetMessage(...) > 0
GetMessagePositive ==
  /\ pc = "get_message"
  /\ \E r \in {1, 0, -1} :
       /\ r # 0 => Iterations < MaxMessages
       /\ msg' = IF r >= 0 THEN Retrieved + 1 ELSE msg
       /\ log' = Append(log, Call("GetMessage",
                                  IF r = 1 THEN Retrieved + 1 ELSE r))
       /\ pc' = IF r > 0 THEN "translate" ELSE "co_uninitialize"
  /\ UNCHANGED <<env, origin, size, configEnv, windowTitle, createArgs,
                 exitStatus, useAfterFree>>

\* while (::GetMessage(&msg, nullptr, 0, 0))
\* GetMessage returns nonzero for a message other than WM_QUIT (logged as
\* the number of the message), 0 for WM_QUIT and -1 on error; on error msg
\* is not written.  The loop tests the result for nonzero.
GetMessage ==
  /\ pc = "get_message"
  /\ \E r \in {1, 0, -1} :
       /\ r # 0 => Iterations < MaxMessages
       /\ msg' = IF r >= 0 THEN Retrieved + 1 ELSE msg
       /\ log' = Append(log, Call("GetMessage",
                                  IF r = 1 THEN Retrieved + 1 ELSE r))
       /\ pc' = IF r # 0 THEN "translate" ELSE "co_uninitialize"
  /\ UNCHANGED <<env, origin, size, configEnv, windowTitle, createArgs,
                 exitStatus, useAfterFree>>

\* ::TranslateMessage(&msg);
TranslateMessage ==
  /\ pc = "translate"
  /\ log' = Append(log, Call("TranslateMessage", msg))
  /\ pc' = "dispatch"
  /\ UNCHANGED <<env, origin, size, configEnv, windowTitle, createArgs, msg,
                 exitStatus, useAfterFree>>

\* ::DispatchMessage(&msg);
DispatchMessage ==
  /\ pc = "dispatch"
  /\ log' = Append(log, Call("DispatchMessage", msg))
  /\ pc' = "get_message"
  /\ UNCHANGED <<env, origin, size, configEnv, windowTitle, createArgs, msg,
                 exitStatus, useAfterFree>>

\* ::CoUninitialize();
CoUninitialize ==
  /\ pc = "co_uninitialize"
  /\ log' = Append(log, Call("CoUninitialize", 0))
  /\ pc' = "return"
  /\ UNCHANGED <<env, origin, size, configEnv, windowTitle, createArgs, msg,
                 exitStatus, useAfterFree>>

\* return EXIT_SUCCESS;
Return ==
  /\ pc = "return"
  /\ exitStatus' = EXIT_SUCCESS
  /\ pc' = "done"
  /\ UNCHANGED <<env, origin, size, configEnv, windowTitle, createArgs, msg,
                 useAfterFree, log>>

Next ==
  \/ AttachConsoleStep
  \/ CoInitialize
  \/ Construct
  \/ DupEnv
  \/ ParseConfig
  \/ FreeConfig
  \/ CreateWindow
  \/ SetQuitOnClose
  \/ GetMessage
  \/ TranslateMessage
  \/ DispatchMessage
  \/ CoUninitialize
  \/ Return

Spec == Init /\ [][Next]_vars

\* ============================================================ properties
KnownKeys == {EURUSD_m5, EURUSD_m30, EURUSD_h4}

\* v is k, a comma, and any suffix
HasKeyPrefix(v, k) ==
  /\ Len(v) > Len(k)
  /\ SubSeq(v, 1, Len(k) + 1) = k \o <<",">>

\* position i (1-based) holds the first comma of v
FirstComma(v, i) ==
  /\ v[i] = ","
  /\ \A j \in 1..(i - 1) : v[j] # ","

HasComma(v) == \E i \in 1..Len(v) : v[i] = ","

\* the lookup of APP_CONFIG returned 0 (with the value, when there is one)
LookupSucceeded == \E i \in Logged("_wdupenv_s") : log[i].ret = 0

CreateFailed == \E c \in Logged("Create") : log[c].ret = 0

CreateSucceeded == \E c \in Logged("Create") : log[c].ret # 0

QuitReceived == \E g \in Logged("GetMessage") : log[g].ret = 0

InLoop == pc \in {"get_message", "translate", "dispatch"}

Phase ==
  IF InLoop THEN "Running"
  ELSE IF pc \in {"co_uninitialize", "return", "done"} THEN "Terminating"
  ELSE "Starting"

\* C1: whenever APP_CONFIG is read as EURUSD-m5 / EURUSD-m30 / EURUSD-h4
\* followed by a comma and any suffix, the title passed to window creation
\* is EUR/USD-5m / EUR/USD-30m / EUR/USD-4h respectively.
C1_KnownKeyTitle ==
  \A n \in 1..Len(createArgs) :
    (env.present /\ LookupSucceeded) =>
      /\ HasKeyPrefix(env.value, EURUSD_m5) => createArgs[n].title = Title_5m
      /\ HasKeyPrefix(env.value, EURUSD_m30) => createArgs[n].title = Title_30m
      /\ HasKeyPrefix(env.value, EURUSD_h4) => createArgs[n].title = Title_4h

C1_Witness ==
  /\ env.present
  /\ env.value = EURUSD_m30 \o <<",", "b", ",">>
  /\ Len(createArgs) = 1
  /\ createArgs[1].title = Title_30m

\* C2: whenever APP_CONFIG is read with a comma in it and the text before
\* its first comma is not a known key, the title passed to window creation
\* is exactly that text, whatever follows the first comma.
C2_UnknownKeyVerbatim ==
  \A n \in 1..Len(createArgs) :
    (env.present /\ LookupSucceeded) =>
      \A i \in 1..Len(env.value) :
        (FirstComma(env.value, i) /\ SubSeq(env.value, 1, i - 1) \notin KnownKeys)
          => createArgs[n].title = SubSeq(env.value, 1, i - 1)

C2_Witness ==
  /\ env.present
  /\ env.value = <<"F", "O", "O", ",", "b", ",">>
  /\ Len(createArgs) = 1
  /\ createArgs[1].title = <<"F", "O", "O">>

\* C3: when APP_CONFIG is absent, or present without any comma (a bare
\* known key included), the title passed to window creation is the default.
C3_DefaultTitle ==
  \A n \in 1..Len(createArgs) :
    (~env.present \/ ~HasComma(env.value)) =>
      createArgs[n].title = DefaultTitle

C3_Witness ==
  /\ env.present
  /\ env.value = EURUSD_m5
  /\ LookupSucceeded
  /\ Len(createArgs) = 1
  /\ createArgs[1].title = DefaultTitle

\* C4: once window creation has failed the routine has returned a non-zero
\* status, SetQuitOnClose was never called and no message was retrieved,
\* translated or dispatched.
C4_CreateFailureIsFatal ==
  CreateFailed =>
    /\ pc = "done"
    /\ exitStatus = EXIT_FAILURE
    /\ exitStatus # 0
    /\ Count("SetQuitOnClose") = 0
    /\ Count("GetMessage") = 0
    /\ Count("TranslateMessage") = 0
    /\ Count("DispatchMessage") = 0

C4_Witness ==
  /\ CreateFailed
  /\ pc = "done"
  /\ exitStatus = EXIT_FAILURE

\* C5: in every terminated execution CoInitializeEx has been called exactly
\* once and CoUninitialize has been called exactly once.
C5_ComReleasedOnEveryExit ==
  pc = "done" =>
    /\ Count("CoInitializeEx") = 1
    /\ Count("CoUninitialize") = 1

\* C6: each retrieved non-quit message is translated and then dispatched
\* before the next retrieval; after SetQuitOnClose the routine is in the
\* loop until a quit message is retrieved; the quit message is followed by
\* CoUninitialize and exit status 0; and the routine returns 0 exactly when
\* creation succeeded and a quit message was received.
C6_MessageLoop ==
  /\ \A g \in Logged("GetMessage") :
       log[g].ret > 0 =>
         /\ g = Len(log) => pc = "translate"
         /\ g + 1 <= Len(log) =>
              log[g + 1] = Call("TranslateMessage", log[g].ret)
         /\ g + 1 = Len(log) => pc = "dispatch"
         /\ g + 2 <= Len(log) =>
              log[g + 2] = Call("DispatchMessage", log[g].ret)
  /\ (Count("SetQuitOnClose") > 0 /\ ~QuitReceived) => InLoop
  /\ (Count("SetQuitOnClose") > 0 /\ ~InLoop) => QuitReceived
  /\ \A g \in Logged("GetMessage") :
       log[g].ret = 0 =>
         /\ ~InLoop
         /\ g = Len(log) => pc = "co_uninitialize"
         /\ g < Len(log) =>
              /\ log[g + 1] = Call("CoUninitialize", 0)
              /\ Len(log) = g + 1
              /\ pc \in {"return", "done"}
  /\ pc = "done" =>
       (exitStatus = EXIT_SUCCESS <=> (CreateSucceeded /\ QuitReceived))

C6_Witness ==
  /\ pc = "done"
  /\ exitStatus = EXIT_SUCCESS
  /\ Count("DispatchMessage") = MaxMessages
  /\ \E g \in Logged("GetMessage") : log[g].ret > 0
  /\ QuitReceived

\* C7: window creation is attempted at most once, exactly once in a finished
\* run, and always with origin (10,10) and size (1280,720).
C7_CreateOnceFixedGeometry ==
  /\ Len(createArgs) <= 1
  /\ Count("Create") = Len(createArgs)
  /\ pc \in {"set_quit_on_close", "get_message", "translate", "dispatch",
             "co_uninitialize", "return", "done"} => Len(createArgs) = 1
  /\ \A n \in 1..Len(createArgs) :
       /\ createArgs[n].origin = <<10, 10>>
       /\ createArgs[n].size = <<1280, 720>>

C7_Witness ==
  /\ pc = "done"
  /\ Len(createArgs) = 1
  /\ createArgs[1].title = <<"A">>
  /\ createArgs[1].origin = <<10, 10>>
  /\ createArgs[1].size = <<1280, 720>>

\* C8: for every combination of results of AttachConsole, IsDebuggerPresent,
\* CreateAndAttachConsole and CoInitializeEx, a finished run has looked up
\* the title, attempted window creation once with the resolved title, and
\* its exit status is failure exactly when creation failed, success
\* otherwise (which requires a quit message).
C8_StartupFailuresNonFatal ==
  \A a \in {0, 1}, d \in {0, 1}, c \in {0, 1}, hr \in {0, -1} :
    ( /\ pc = "done"
      /\ Call("AttachConsole", a) = log[1]
      /\ (a = 0 => Call("IsDebuggerPresent", d) = log[2])
      /\ ((a = 0 /\ d = 1) => Call("CreateAndAttachConsole", c) = log[3])
      /\ \E i \in Logged("CoInitializeEx") : log[i].ret = hr )
    =>
      /\ Count("_wdupenv_s") = 1
      /\ Len(createArgs) = 1
      /\ createArgs[1].title = windowTitle
      /\ exitStatus = (IF CreateFailed THEN EXIT_FAILURE ELSE EXIT_SUCCESS)
      /\ exitStatus = EXIT_SUCCESS => QuitReceived

C8_Witness ==
  /\ pc = "done"
  /\ log[1] = Call("AttachConsole", 0)
  /\ log[2] = Call("IsDebuggerPresent", 1)
  /\ log[3] = Call("CreateAndAttachConsole", 0)
  /\ log[4] = Call("CoInitializeEx", -1)
  /\ exitStatus = EXIT_SUCCESS

C9_Order ==
  /\ \A c \in Logged("Create") :
       /\ \E i \in Logged("CoInitializeEx") : i < c
       /\ \E d \in Logged("_wdupenv_s") : d < c
       /\ \A f \in Logged("free") : f < c
  /\ pc \in {"parse", "free"} => Count("Create") = 0
  /\ \A n \in 1..Len(createArgs) : createArgs[n].title = windowTitle
  /\ Count("SetQuitOnClose") <= 1
  /\ \A s \in Logged("SetQuitOnClose") :
       /\ log[s].ret = 1
       /\ \E c \in Logged("Create") : c < s /\ log[c].ret # 0
       /\ \A g \in Logged("GetMessage") : s < g
  /\ Count("GetMessage") > 0 => Count("SetQuitOnClose") = 1
  /\ Phase = "Running" => Count("SetQuitOnClose") = 1
  /\ CreateFailed => (Phase = "Terminating" /\ Count("GetMessage") = 0)

C9_PhaseStep ==
  \/ Phase' = Phase
  \/ Phase = "Starting" /\ Phase' = "Running" /\ CreateSucceeded'
  \/ Phase = "Running" /\ Phase' = "Terminating" /\ QuitReceived'
  \/ Phase = "Starting" /\ Phase' = "Terminating" /\ CreateFailed'

\* C9: CoInitializeEx and the whole title resolution precede window
\* creation, which receives the resolved title; SetQuitOnClose(true) is
\* called at most once, only after a successful creation and before the
\* first GetMessage; the lifecycle moves only Starting -> Running ->
\* Terminating, or Starting -> Terminating when creation failed, and a run
\* whose creation failed never is Running.
C9_BootstrapOrder ==
  [](C9_Order) /\ [][C9_PhaseStep]_vars

C9_Witness ==
  /\ Phase = "Running"
  /\ pc = "get_message"
  /\ Count("SetQuitOnClose") = 1
  /\ Count("GetMessage") = 0
  /\ createArgs[1].title = Title_4h

\* C10: the buffer returned by _wdupenv_s is freed exactly once when the
\* lookup returned 0 and a buffer, before window creation, on every path;
\* it is never freed when the lookup failed or returned no buffer; and it
\* is never read after free().
C10_ConfigBufferFreedOnce ==
  /\ Count("free") <= 1
  /\ ~useAfterFree
  /\ Count("free") = 1 => configEnv.ptr = "freed"
  /\ (~env.present \/ ~LookupSucceeded) =>
       (Count("free") = 0 /\ configEnv.ptr = "null")
  /\ \A c \in Logged("Create") :
       /\ (env.present /\ LookupSucceeded) =>
            (Count("free") = 1 /\ \A f \in Logged("free") : f < c)
       /\ configEnv.ptr # "live"

C10_Witness ==
  /\ env.present
  /\ ~HasComma(env.value)
  /\ LookupSucceeded
  /\ Count("free") = 1
  /\ Count("Create") = 1
  /\ configEnv.ptr = "freed"
====
